---- MODULE Spec2Model ----
(***************************************************************************)
(* UDP connection demultiplexer of src/udp.rs: the acceptor of run_server  *)
(* (a stream::unfold over UdpServer), the per-peer UdpStream with its      *)
(* watchdog, the IoInner gate (two tokio Notify) and the deferred deletion *)
(* of registry keys on drop.                                               *)
(* The client side, connect, is a loop over the resolved candidate         *)
(* addresses; it shares no state with the server side.                     *)
(*                                                                         *)
(* The kernel receive queue of the listening socket is rxq.  The acceptor  *)
(* only runs when its consumer polls it: every Acc* action is one such     *)
(* poll running up to the next suspension point.  A read on a UdpStream is *)
(* a future: StartRead polls it once, Repoll polls it again only after one *)
(* of the wakers it registered has fired.                                  *)
(***************************************************************************)
EXTENDS Integers, Sequences, FiniteSets, TLC

\* ----------------------------------------------------------------- bounds
NPeers == 2
MaxSend == 3
MaxStreams == 3
MaxDue == 2
MaxTicks == 2
MaxAddrs == 3

Peers == 1..NPeers
Streams == 1..MaxStreams

\* Option::None of an address (peer_with_data) and of a map lookup
NoPeer == 0
NoGate == 0

VARIABLES
    rxq,             \* receive queue of the listening socket: <<[src, id]>>
    arrived,         \* history: source of the i-th datagram that arrived
    cnx_timeout,     \* UdpServer.cnx_timeout is Some(_)
    pc,              \* where the unfold closure of run_server is suspended
    peer_with_data,  \* second component of the unfold state
    peers,           \* UdpServer.peers: address -> gate (NoGate: absent)
    keys_to_delete,  \* UdpServer.keys_to_delete
    accGate,         \* gate whose has_read_data the acceptor awaits
    accNotified,     \* the acceptor's Notified has been notified
    nstreams,        \* number of UdpStream::new calls so far
    nticks,          \* watchdog periods elapsed so far, over all streams
    stream,          \* per UdpStream: its fields and its reader
    io,              \* per IoInner: the permit of each Notify
    recv_waker,      \* stream whose waker poll_recv_from registered last
    delivered,       \* history: the successful reads, in order
    ghost,           \* history flags per stream
    conn             \* the call of connect: its locals and its position

vars == <<rxq, arrived, cnx_timeout, pc, peer_with_data, peers, keys_to_delete,
          accGate, accNotified, nstreams, nticks, stream, io, recv_waker, delivered,
          ghost, conn>>

accVars == <<pc, peer_with_data, peers, keys_to_delete, accGate, accNotified>>

\* ------------------------------------------------------------------ state
NoStream == [state |-> "none", peer |-> NoPeer, pending_notification |-> "None",
             data_read_before_deadline |-> FALSE, due |-> 0, armed |-> FALSE,
             rd |-> "idle", woken |-> FALSE]

NoGhost == [has_read |-> FALSE, raised |-> FALSE, timed_out |-> FALSE, swept |-> FALSE,
            pushed |-> FALSE, last |-> "none"]

\* connect has not been called: no candidate, cnx and last_err are None (0)
NoConn == [pc |-> "idle", socket_addrs |-> <<>>, i |-> 0, cnx |-> 0, last_err |-> 0,
           tried |-> <<>>, result |-> "none"]

\* run_server: UdpServer::new and the initial unfold state (udp_server, None)
Init ==
    /\ rxq = <<>>
    /\ arrived = <<>>
    /\ cnx_timeout \in BOOLEAN
    /\ pc = "start"
    /\ peer_with_data = NoPeer
    /\ peers = [p \in Peers |-> NoGate]
    /\ keys_to_delete = <<>>
    /\ accGate = NoGate
    /\ accNotified = FALSE
    /\ nstreams = 0
    /\ nticks = 0
    /\ stream = [s \in Streams |-> NoStream]
    /\ io = [s \in Streams |-> [has_data_to_read |-> FALSE, has_read_data |-> FALSE]]
    /\ recv_waker = NoGate
    /\ delivered = <<>>
    /\ ghost = [s \in Streams |-> NoGhost]
    /\ conn = NoConn

\* The UdpServer (registry and deletion queue) still exists
ServerAlive == pc \notin {"done", "dropped"}

Live(s) == stream[s].state = "live"

\* ---------------------------------------------------------------- helpers
\* mutant: the stream holds a strong reference, the upgrade always succeeds
upgrade_strong == TRUE

\* Weak::upgrade of UdpStream.keys_to_delete
upgrade == ServerAlive

\* mutant: the datagram is read but left in the queue
recv_from_peek(q) == [dgram |-> Head(q), rest |-> q]

\* mutant: the newest datagram is taken instead of the oldest
recv_from_last(q) == [dgram |-> q[Len(q)], rest |-> SubSeq(q, 1, Len(q) - 1)]

\* UdpSocket::poll_recv_from: removes the datagram at the head of the queue
recv_from(q) == [dgram |-> Head(q), rest |-> Tail(q)]

\* UdpSocket::peek_sender: source of the head datagram, nothing removed
peek_sender(q) == Head(q).src

\* mutant: the lookup never finds the address
known_never(p, addr) == FALSE

\* HashMap::get on the registry, as a test
known(p, addr) == p[addr] # NoGate

\* mutant: a non-empty queue clears the whole map
clean_dead_keys_all(p, keys) ==
    [a \in Peers |-> IF keys # <<>> THEN NoGate ELSE p[a]]

\* mutant: the queue is drained but no key is removed
clean_dead_keys_keep(p, keys) == p

\* UdpServer::clean_dead_keys: the map without the queued keys
clean_dead_keys(p, keys) ==
    [a \in Peers |-> IF \E i \in 1..Len(keys) : keys[i] = a THEN NoGate ELSE p[a]]

\* mutant: a new subscription is ready without any notification
notified_ready_ungated(pn, permit) == pn \in {"notified", "latched", "init"}

\* Notified::poll of pending_notification: ready when notified by notify_one,
\* when notify_waiters ran after its creation, or when a permit is stored
notified_ready(pn, permit) ==
    \/ pn \in {"notified", "latched"}
    \/ pn = "init" /\ permit

\* Interval::poll_tick is Ready when a period has elapsed and was not consumed
tick_ready(st) == cnx_timeout /\ st.due > 0

\* Interval::poll_tick: consumes an elapsed tick, or registers the waker
poll_tick(st) ==
    IF ~cnx_timeout THEN st
    ELSE IF st.due > 0 THEN [st EXCEPT !.due = @ - 1, !.armed = FALSE]
    ELSE [st EXCEPT !.armed = TRUE]

\* The acceptor is a registered waiter of has_read_data of gate g
AccWaiting(g) == pc \in {"ack_wait", "wait"} /\ accGate = g /\ ~accNotified

\* mutant: the permit is stored even when the waiting acceptor is woken
notify_read_both(i, g) == [i EXCEPT ![g].has_read_data = TRUE]

\* mutant: a notification that finds no waiter is lost
notify_read_lost(i, g) == i

\* Notify::notify_one on has_read_data of gate g (udp.rs:90, :159): wakes the
\* acceptor when it is the registered waiter, else stores the permit
notify_read(i, g) ==
    IF AccWaiting(g) THEN i ELSE [i EXCEPT ![g].has_read_data = TRUE]

\* Notify::notify_one on has_data_to_read of gate g (udp.rs:216): the stream's
\* Notified is the only possible waiter; with none registered the permit is stored
StreamWaiting(g) ==
    stream[g].state \in {"live", "dropping"} /\ stream[g].pending_notification = "waiting"

\* mutant: a notification with no registered waiter is lost
notify_data_nolatch(i, g) == i

\* mutant: the permit is stored on every gate, not only on the gate looked up
notify_data_all(i, g) == [x \in Streams |-> [i[x] EXCEPT !.has_data_to_read = TRUE]]

notify_data(i, g) ==
    IF StreamWaiting(g) THEN i ELSE [i EXCEPT ![g].has_data_to_read = TRUE]

\* mutant: the subscription made by UdpStream::new is not completed
notify_waiters_none(pn) == pn

\* Notify::notify_waiters on has_data_to_read (udp.rs:228): completes the
\* Notified that exists at the call and stores no permit
notify_waiters(pn) == IF pn \in {"init", "waiting"} THEN "latched" ELSE pn

\* mutant: the deletion queue is not emptied by the sweep
clear_none(keys) == keys

\* Vec::clear of the deletion queue (udp.rs:58)
clear(keys) == <<>>

\* ----------------------------------------------------------------- kernel
\* A remote sends one datagram to the bound address.  Addresses are
\* interchangeable, so the remotes are numbered in the order of their first
\* datagram
Send(p) ==
    /\ Len(arrived) < MaxSend
    /\ p = 1 \/ \E i \in 1..Len(arrived) : arrived[i] = p - 1
    /\ rxq' = Append(rxq, [src |-> p, id |-> Len(arrived) + 1])
    /\ arrived' = Append(arrived, p)
    /\ IF recv_waker # NoGate /\ Live(recv_waker) /\ stream[recv_waker].rd = "pending"
       THEN stream' = [stream EXCEPT ![recv_waker].woken = TRUE]
       ELSE stream' = stream
    /\ recv_waker' = NoGate
    /\ UNCHANGED <<cnx_timeout, conn, nticks, accVars, nstreams, io, delivered, ghost>>

\* One watchdog period of stream s elapses (tokio Interval, default Burst
\* behaviour: every elapsed period is one Ready poll_tick); the waker of a
\* pending poll_tick fires.  More than MaxDue unconsumed periods count as MaxDue
Elapse(s) ==
    /\ cnx_timeout
    /\ Live(s)
    /\ stream[s].due < MaxDue
    /\ nticks' = IF nticks < MaxTicks THEN nticks + 1 ELSE nticks
    /\ stream' = [stream EXCEPT ![s].due = @ + 1,
                                ![s].armed = FALSE,
                                ![s].woken = @ \/ (stream[s].armed /\ stream[s].rd = "pending")]
    /\ UNCHANGED <<rxq, arrived, cnx_timeout, conn, accVars, nstreams, io, recv_waker,
                   delivered, ghost>>

\* Elapse within the budget of periods of the bounded specification
Tick(s) == nticks < MaxTicks /\ Elapse(s)

\* --------------------------------------------------------------- acceptor
\* udp.rs:193-201: the closure starts; with a pending-ack peer it awaits
\* has_read_data of that peer's gate
AccStart ==
    /\ pc = "start"
    /\ LET g == IF peer_with_data = NoPeer THEN NoGate ELSE peers[peer_with_data]
       IN IF g = NoGate
          THEN /\ pc' = "loop"
               /\ UNCHANGED <<accGate, io>>
          ELSE IF io[g].has_read_data
          THEN /\ pc' = "loop"
               /\ io' = [io EXCEPT ![g].has_read_data = FALSE]
               /\ UNCHANGED accGate
          ELSE /\ pc' = "ack_wait"
               /\ accGate' = g
               /\ UNCHANGED io
    /\ peer_with_data' = NoPeer
    /\ accNotified' = FALSE
    /\ UNCHANGED <<rxq, arrived, cnx_timeout, conn, nticks, peers, keys_to_delete, nstreams,
                   stream, recv_waker, delivered, ghost>>

\* udp.rs:198 and :217: the awaited has_read_data was notified
AccResume ==
    /\ pc \in {"ack_wait", "wait"}
    /\ accNotified
    /\ pc' = "loop"
    /\ accGate' = NoGate
    /\ accNotified' = FALSE
    /\ UNCHANGED <<rxq, arrived, cnx_timeout, conn, nticks, peer_with_data, peers, keys_to_delete,
                   nstreams, stream, io, recv_waker, delivered, ghost>>

\* udp.rs:204: top of the loop, clean_dead_keys, then peek_sender is awaited
AccSweep ==
    /\ pc = "loop"
    /\ peers' = clean_dead_keys(peers, keys_to_delete)
    /\ keys_to_delete' = clear(keys_to_delete)
    /\ pc' = "peek"
    /\ ghost' = [s \in Streams |->
                    IF ghost[s].pushed
                    THEN [ghost[s] EXCEPT !.swept = TRUE, !.raised = FALSE]
                    ELSE ghost[s]]
    /\ UNCHANGED <<rxq, arrived, cnx_timeout, conn, nticks, peer_with_data, accGate, accNotified,
                   nstreams, stream, io, recv_waker, delivered>>

\* udp.rs:205-232: peek_sender returns the source of the head datagram
AccPeek ==
    /\ pc = "peek"
    /\ rxq # <<>>
    /\ LET addr == peek_sender(rxq)
           g == peers[addr]
           n == nstreams + 1
       IN IF known(peers, addr)
          THEN \* udp.rs:214-219
               LET io1 == notify_data(io, g)
               IN /\ stream' = IF StreamWaiting(g)
                               THEN [stream EXCEPT ![g].pending_notification = "notified",
                                                   ![g].woken = stream[g].rd = "pending"]
                               ELSE stream
                  /\ IF io1[g].has_read_data
                     THEN /\ io' = [io1 EXCEPT ![g].has_read_data = FALSE]
                          /\ pc' = "loop"
                          /\ accGate' = NoGate
                     ELSE /\ io' = io1
                          /\ pc' = "wait"
                          /\ accGate' = g
                  /\ ghost' = [ghost EXCEPT ![g].raised = TRUE]
                  /\ UNCHANGED <<peers, peer_with_data, nstreams>>
          ELSE \* udp.rs:220-231, UdpStream::new udp.rs:95-123
               /\ n <= MaxStreams
               /\ stream' = [stream EXCEPT ![n] =
                               [NoStream EXCEPT !.state = "live", !.peer = addr,
                                                !.pending_notification =
                                                    notify_waiters("init")]]
               /\ peers' = [peers EXCEPT ![addr] = n]
               /\ peer_with_data' = addr
               /\ nstreams' = n
               /\ pc' = "start"
               /\ UNCHANGED <<io, accGate, ghost>>
    /\ accNotified' = FALSE
    /\ UNCHANGED <<rxq, arrived, cnx_timeout, conn, nticks, keys_to_delete, recv_waker, delivered>>

\* mutant: a failing peek is retried at the top of the loop
AccPeekErr_retry ==
    /\ pc = "peek"
    /\ pc' = "loop"
    /\ UNCHANGED <<rxq, arrived, cnx_timeout, conn, nticks, peer_with_data, peers,
                   keys_to_delete, accGate, accNotified, nstreams, stream, io,
                   recv_waker, delivered, ghost>>

\* udp.rs:207-210: peek_sender fails, the closure returns None and the
\* UdpServer it owns is dropped with it
AccPeekErr ==
    /\ pc = "peek"
    /\ pc' = "done"
    /\ peers' = [p \in Peers |-> NoGate]
    /\ keys_to_delete' = <<>>
    /\ accGate' = NoGate
    /\ accNotified' = FALSE
    /\ UNCHANGED <<rxq, arrived, cnx_timeout, conn, nticks, peer_with_data, nstreams, stream, io,
                   recv_waker, delivered, ghost>>

\* The consumer drops the acceptor: the unfold state, the UdpServer, its map
\* and the only strong reference to keys_to_delete go away
DropAcceptor ==
    /\ ServerAlive
    /\ pc' = "dropped"
    /\ peers' = [p \in Peers |-> NoGate]
    /\ keys_to_delete' = <<>>
    /\ peer_with_data' = NoPeer
    /\ accGate' = NoGate
    /\ accNotified' = FALSE
    /\ UNCHANGED <<rxq, arrived, cnx_timeout, conn, nticks, nstreams, stream, io, recv_waker,
                   delivered, ghost>>

\* ----------------------------------------------------------------- stream
\* UdpStream::poll_read, udp.rs:127-161, polled once; err: the socket
\* answers poll_recv_from with an error instead of the datagram
poll_read(s, err) ==
    LET st0 == stream[s]
        st1 == poll_tick(st0)
        pn == st0.pending_notification
        ready == pn = "None" \/ notified_ready(pn, io[s].has_data_to_read)
        io1 == IF pn = "init" /\ ready THEN [io EXCEPT ![s].has_data_to_read = FALSE] ELSE io
    IN IF tick_ready(st0)
       THEN IF st0.data_read_before_deadline
            THEN \* udp.rs:137-139: flag cleared, tick polled again, Pending
                 /\ stream' = [stream EXCEPT ![s] =
                                 [poll_tick(st1) EXCEPT !.data_read_before_deadline = FALSE,
                                                        !.rd = "pending", !.woken = FALSE]]
                 /\ ghost' = [ghost EXCEPT ![s].last = "pending"]
                 /\ UNCHANGED <<rxq, io, accNotified, recv_waker, delivered>>
            ELSE \* udp.rs:141-144: Err(TimedOut)
                 /\ stream' = [stream EXCEPT ![s] =
                                 [st1 EXCEPT !.rd = "idle", !.woken = FALSE, !.armed = FALSE]]
                 /\ ghost' = [ghost EXCEPT ![s].timed_out = TRUE, ![s].last = "timeout"]
                 /\ UNCHANGED <<rxq, io, accNotified, recv_waker, delivered>>
       ELSE IF ~ready
       THEN \* udp.rs:150: the Notified is pending, its waiter is registered
            /\ stream' = [stream EXCEPT ![s] =
                            [st1 EXCEPT !.pending_notification = "waiting",
                                        !.rd = "pending", !.woken = FALSE]]
            /\ ghost' = [ghost EXCEPT ![s].last = "pending"]
            /\ UNCHANGED <<rxq, io, accNotified, recv_waker, delivered>>
       ELSE IF rxq = <<>>
       THEN \* udp.rs:154: poll_recv_from is pending on an empty queue
            /\ stream' = [stream EXCEPT ![s] =
                            [st1 EXCEPT !.pending_notification = "None",
                                        !.rd = "pending", !.woken = FALSE]]
            /\ io' = io1
            /\ recv_waker' = s
            /\ ghost' = [ghost EXCEPT ![s].last = "pending"]
            /\ UNCHANGED <<rxq, accNotified, delivered>>
       ELSE IF err
       THEN \* udp.rs:154: the error is returned by `?`, the gate is not re-armed
            /\ stream' = [stream EXCEPT ![s] =
                            [st1 EXCEPT !.pending_notification = "None",
                                        !.rd = "idle", !.woken = FALSE, !.armed = FALSE]]
            /\ io' = io1
            /\ ghost' = [ghost EXCEPT ![s].last = "error"]
            /\ UNCHANGED <<rxq, accNotified, recv_waker, delivered>>
       ELSE \* udp.rs:154-160: one datagram received
            LET r == recv_from(rxq)
            IN /\ rxq' = r.rest
               /\ stream' = [stream EXCEPT ![s] =
                               [st1 EXCEPT !.pending_notification = "init",
                                           !.data_read_before_deadline = TRUE,
                                           !.rd = "idle", !.woken = FALSE,
                                           !.armed = FALSE]]
               /\ io' = notify_read(io1, s)
               /\ accNotified' = (accNotified \/ AccWaiting(s))
               /\ delivered' = Append(delivered,
                                  [id |-> r.dgram.id, src |-> r.dgram.src, stream |-> s,
                                   peer |-> st0.peer, first |-> ~ghost[s].has_read,
                                   raised |-> ghost[s].raised,
                                   dead |-> ghost[s].timed_out])
               /\ ghost' = [ghost EXCEPT ![s].has_read = TRUE, ![s].raised = FALSE,
                                         ![s].last = "data"]
               /\ UNCHANGED recv_waker

\* The consumer of stream s issues a read: the future is polled once
StartRead(s, err) ==
    /\ Live(s)
    /\ stream[s].rd = "idle"
    /\ poll_read(s, err)
    /\ UNCHANGED <<arrived, cnx_timeout, conn, nticks, pc, peer_with_data, peers, keys_to_delete,
                   accGate, nstreams>>

\* A waker registered by the pending read has fired: the task polls it again
Repoll(s, err) ==
    /\ Live(s)
    /\ stream[s].rd = "pending"
    /\ stream[s].woken
    /\ poll_read(s, err)
    /\ UNCHANGED <<arrived, cnx_timeout, conn, nticks, pc, peer_with_data, peers, keys_to_delete,
                   accGate, nstreams>>

\* The consumer gives up a pending read (a timeout around read); the stream
\* and the subscription it holds stay
CancelRead(s) ==
    /\ Live(s)
    /\ stream[s].rd = "pending"
    /\ stream' = [stream EXCEPT ![s].rd = "idle", ![s].woken = FALSE,
                                ![s].armed = FALSE]
    /\ recv_waker' = IF recv_waker = s THEN NoGate ELSE recv_waker
    /\ UNCHANGED <<rxq, arrived, cnx_timeout, conn, nticks, accVars, nstreams, io,
                   delivered, ghost>>

\* PinnedDrop, udp.rs:82-84: the address is queued when the Weak upgrades
DropPush(s) ==
    /\ Live(s)
    /\ stream' = [stream EXCEPT ![s] =
                    [NoStream EXCEPT !.state = "dropping", !.peer = stream[s].peer,
                                     !.pending_notification = stream[s].pending_notification]]
    /\ keys_to_delete' = IF upgrade THEN Append(keys_to_delete, stream[s].peer)
                         ELSE keys_to_delete
    /\ ghost' = [ghost EXCEPT ![s] = [NoGhost EXCEPT !.pushed = upgrade]]
    /\ recv_waker' = IF recv_waker = s THEN NoGate ELSE recv_waker
    /\ UNCHANGED <<rxq, arrived, cnx_timeout, conn, nticks, pc, peer_with_data, peers, accGate,
                   accNotified, nstreams, io, delivered>>

\* PinnedDrop, udp.rs:88-90: the subscription is released (a notification it
\* had received from notify_one goes back to the Notify), then has_read_data
\* is notified
DropSignal(s) ==
    /\ stream[s].state = "dropping"
    /\ stream' = [stream EXCEPT ![s] =
                    [NoStream EXCEPT !.state = "dropped", !.peer = stream[s].peer]]
    /\ io' = notify_read(
                IF stream[s].pending_notification = "notified"
                THEN [io EXCEPT ![s].has_data_to_read = TRUE] ELSE io, s)
    /\ accNotified' = (accNotified \/ AccWaiting(s))
    /\ UNCHANGED <<rxq, arrived, cnx_timeout, conn, nticks, pc, peer_with_data, peers,
                   keys_to_delete, accGate, nstreams, recv_waker, delivered, ghost>>

\* ---------------------------------------------------------------- connect
\* What happens when connect tries one candidate address: bind and connect
\* succeed, bind fails, connect fails, or connect exceeds connect_timeout
Outcomes == {"ok", "bind_err", "connect_err", "timeout"}

\* The resolved socket_addrs, each with the outcome its attempt will have
AddrLists == UNION {[1..n -> Outcomes] : n \in 0..MaxAddrs}

\* all variables of the server side
srvVars == <<rxq, arrived, cnx_timeout, pc, peer_with_data, peers, keys_to_delete,
             accGate, accNotified, nstreams, nticks, stream, io, recv_waker, delivered,
             ghost>>

\* mutant: a successful candidate does not end the loop
attempt_no_break(c) ==
    LET k == c.i + 1
        out == c.socket_addrs[k]
        c1 == [c EXCEPT !.i = k, !.tried = Append(@, k),
                        !.pc = IF k = Len(c.socket_addrs) THEN "end" ELSE "for"]
    IN IF out = "ok" THEN [c1 EXCEPT !.cnx = k]
       ELSE IF out = "connect_err" THEN [c1 EXCEPT !.last_err = k]
       ELSE c1

\* udp.rs:286-318, one iteration of `for addr in socket_addrs`: a bind error
\* continues, a connected socket is kept in cnx and breaks, a connect error is
\* kept in last_err (named by its candidate), a timeout is only logged
attempt(c) ==
    LET k == c.i + 1
        out == c.socket_addrs[k]
        c1 == [c EXCEPT !.i = k, !.tried = Append(@, k),
                        !.pc = IF k = Len(c.socket_addrs) THEN "end" ELSE "for"]
    IN IF out = "bind_err" THEN c1
       ELSE IF out = "ok" THEN [c1 EXCEPT !.cnx = k, !.pc = "end"]
       ELSE IF out = "connect_err" THEN [c1 EXCEPT !.last_err = k]
       ELSE c1

\* udp.rs:272-285: connect is called and the host resolves to socket_addrs
Connect(addrs) ==
    /\ conn.pc = "idle"
    /\ conn' = [NoConn EXCEPT !.socket_addrs = addrs,
                              !.pc = IF addrs = <<>> THEN "end" ELSE "for"]
    /\ UNCHANGED srvVars

\* udp.rs:286-318: the next candidate is tried
ConnectAttempt ==
    /\ conn.pc = "for"
    /\ conn' = attempt(conn)
    /\ UNCHANGED srvVars

\* udp.rs:320-324: Ok with the socket in cnx, else Err carrying last_err
ConnectReturn ==
    /\ conn.pc = "end"
    /\ conn' = [conn EXCEPT !.pc = "returned",
                            !.result = IF conn.cnx # 0 THEN "Ok" ELSE "Err"]
    /\ UNCHANGED srvVars

\* ---------------------------------------------------------- specification
Next ==
    \/ \E p \in Peers : Send(p)
    \/ \E s \in Streams : Tick(s)
    \/ AccStart
    \/ AccResume
    \/ AccSweep
    \/ AccPeek
    \/ AccPeekErr
    \/ DropAcceptor
    \/ \E s \in Streams, err \in BOOLEAN : StartRead(s, err)
    \/ \E s \in Streams, err \in BOOLEAN : Repoll(s, err)
    \/ \E s \in Streams : CancelRead(s)
    \/ \E s \in Streams : DropPush(s)
    \/ \E s \in Streams : DropSignal(s)

Spec == Init /\ [][Next]_vars

\* The acceptor is polled
Acceptor == AccStart \/ AccResume \/ AccSweep \/ AccPeek

\* The consumer of stream s reads: it issues a read whenever none is in flight
\* and its task polls the pending read whenever it is woken
Reader(s) == StartRead(s, FALSE) \/ Repoll(s, FALSE)

\* No watchdog, no drop, no cancelled read, no socket error; the acceptor is
\* polled continuously and every yielded stream is read continuously
NextLive ==
    \/ \E p \in Peers : Send(p)
    \/ AccStart
    \/ AccResume
    \/ AccSweep
    \/ AccPeek
    \/ \E s \in Streams : StartRead(s, FALSE)
    \/ \E s \in Streams : Repoll(s, FALSE)

InitLive == Init /\ cnx_timeout = FALSE

SpecLive ==
    /\ InitLive
    /\ [][NextLive]_vars
    /\ WF_vars(Acceptor)
    /\ \A s \in Streams : WF_vars(Reader(s))

\* Watchdog configured, one remote, no drop, no cancelled read, no socket
\* error: time passes without bound, the acceptor is polled continuously and
\* the task of a woken read polls it; when a read is issued is the consumer's
\* choice
NextWd ==
    \/ Send(1)
    \/ \E s \in Streams : Elapse(s)
    \/ AccStart
    \/ AccResume
    \/ AccSweep
    \/ AccPeek
    \/ \E s \in Streams : StartRead(s, FALSE)
    \/ \E s \in Streams : Repoll(s, FALSE)

InitWd == Init /\ cnx_timeout = TRUE

SpecWd ==
    /\ InitWd
    /\ [][NextWd]_vars
    /\ WF_vars(Acceptor)
    /\ \A s \in Streams : WF_vars(Elapse(s)) /\ WF_vars(Repoll(s, FALSE))

\* One call of connect, for every list of candidates and outcomes
NextConnect ==
    \/ \E addrs \in AddrLists : Connect(addrs)
    \/ ConnectAttempt
    \/ ConnectReturn

InitConnect == Init /\ cnx_timeout = FALSE

SpecConnect == InitConnect /\ [][NextConnect]_vars

\* ------------------------------------------------------------- properties
DeliveredIds == {delivered[k].id : k \in 1..Len(delivered)}
QueuedIds == {rxq[k].id : k \in 1..Len(rxq)}

\* ids of the datagrams that arrived from p, in arrival order
ArrivedOf(p) ==
    LET from(i) == arrived[i] = p
    IN SelectSeq([i \in 1..Len(arrived) |-> i], from)

\* ids returned by the reads of the streams of peer p, in read order
DeliveredOf(p) ==
    LET of(r) == r.peer = p
        sel == SelectSeq(delivered, of)
    IN [k \in 1..Len(sel) |-> sel[k].id]

IsPrefix(a, b) == Len(a) <= Len(b) /\ SubSeq(b, 1, Len(a)) = a

\* C1: every datagram that has left the receive queue was returned by exactly
\* one successful read, of a stream whose peer is the datagram's source; every
\* other datagram that arrived is still queued (the acceptor removes none).
C1_DeliveredOnceToOwner ==
    /\ \A k \in 1..Len(delivered) :
          /\ delivered[k].src = delivered[k].peer
          /\ arrived[delivered[k].id] = delivered[k].src
    /\ \A j, k \in 1..Len(delivered) : j # k => delivered[j].id # delivered[k].id
    /\ DeliveredIds \cup QueuedIds = 1..Len(arrived)
    /\ DeliveredIds \cap QueuedIds = {}

C1_Witness ==
    /\ Len(delivered) >= 3
    /\ \E j, k \in 1..Len(delivered) : delivered[j].src # delivered[k].src
    /\ \E s \in Streams : stream[s].state = "dropped"

\* C2: for every peer, the datagrams returned by the reads of its streams, one
\* per read and in read order, are a prefix of the datagrams that arrived from
\* that peer in arrival order: none merged, skipped or reordered.
C2_PerPeerOrder ==
    \A p \in Peers : IsPrefix(DeliveredOf(p), ArrivedOf(p))

C2_Witness ==
    /\ Len(arrived) >= 3
    /\ arrived[1] = 1 /\ arrived[2] = 2 /\ arrived[3] = 1
    /\ DeliveredOf(1) = <<1, 3>>
    /\ DeliveredOf(2) = <<2>>

\* C3: with the acceptor polled continuously and every yielded stream read
\* continuously (no watchdog, no drop), every datagram that enters the receive
\* queue is eventually returned by a read.
C3_EveryDatagramDelivered ==
    \A i \in 1..MaxSend : (Len(arrived) >= i) ~> (i \in DeliveredIds)

C3_Witness ==
    /\ Len(delivered) >= 1
    /\ \E s \in Streams :
          /\ Live(s) /\ pc = "wait" /\ accGate = s
          /\ stream[s].rd = "pending" /\ stream[s].woken
          /\ stream[s].pending_notification = "notified"
    /\ \E k \in 1..Len(rxq) : rxq[k].src # Head(rxq).src

\* C4: while the acceptor is alive, the peer of every live stream is a key of
\* the registry whose entry is that stream's gate, and no two live streams
\* have the same peer.
C4_LiveStreamRegistered ==
    ServerAlive =>
        /\ \A s \in Streams : Live(s) => peers[stream[s].peer] = s
        /\ \A s, u \in Streams :
              Live(s) /\ Live(u) /\ s # u => stream[s].peer # stream[u].peer

C4_Witness ==
    /\ ServerAlive
    /\ \E s, u, v \in Streams :
          /\ stream[s].state = "dropped" /\ Live(u) /\ Live(v)
          /\ stream[s].peer = stream[u].peer
          /\ stream[v].peer # stream[u].peer

\* C5: every successful read of a stream other than its first one was
\* preceded, after the stream's previous read, by the acceptor raising
\* has_data_to_read on that stream's gate.
C5_ReadNeedsAcceptor ==
    \A k \in 1..Len(delivered) : delivered[k].first \/ delivered[k].raised

C5_Witness ==
    /\ \E k \in 1..Len(delivered) : ~delivered[k].first /\ delivered[k].raised
    /\ \E s \in Streams :
          /\ Live(s) /\ stream[s].rd = "pending" /\ ghost[s].has_read
          /\ rxq # <<>> /\ Head(rxq).src = stream[s].peer

\* C6: the acceptor yields a stream only from its peek, with a datagram at the
\* head of the receive queue whose source is no key of the registry and has no
\* live stream; it yields exactly one stream, for that source.
C6_YieldOnlyForUnknownHead ==
    [][nstreams' # nstreams =>
          /\ pc = "peek"
          /\ rxq # <<>>
          /\ peers[Head(rxq).src] = NoGate
          /\ \A s \in Streams : Live(s) => stream[s].peer # Head(rxq).src
          /\ nstreams' = nstreams + 1
          /\ stream'[nstreams'].peer = Head(rxq).src
          /\ rxq' = rxq]_vars

C6_Witness ==
    /\ nstreams >= 2
    /\ \E k \in 1..Len(delivered) : delivered[k].raised
    /\ pc = "peek" /\ rxq = <<>>

\* C7 (as claimed): with the watchdog configured, a pending read of a stream
\* that has read before, with no datagram queued, eventually fails with
\* Timeout unless a new datagram arrives.
C7_IdleReadTimesOut ==
    \A s \in Streams :
        (Live(s) /\ stream[s].rd = "pending" /\ ghost[s].has_read /\ rxq = <<>>)
            ~> (ghost[s].last = "timeout" \/ rxq # <<>>)

\* C8 (as claimed): no read of a stream returns a datagram after a read of
\* that stream has failed with Timeout.
C8_DeadAfterTimeout ==
    \A k \in 1..Len(delivered) : ~delivered[k].dead

\* every stream of peer p has been dropped and swept since
Reclaimed(p) ==
    /\ \E s \in Streams : stream[s].peer = p
    /\ \A s \in Streams : stream[s].peer = p => ghost[s].swept

\* C9: once the acceptor has run its sweep after the drop of a stream, the
\* registry entry of that stream is gone, the acceptor neither raises
\* has_data_to_read on the defunct gate nor waits on it, and when it then peeks
\* a datagram of that peer it yields a new stream on a fresh gate, registered
\* for the peer, leaving the datagram in the queue.
C9_DropReclaims ==
    /\ [](\A s \in Streams : ghost[s].swept =>
              /\ peers[stream[s].peer] # s
              /\ accGate # s
              /\ ~ghost[s].raised)
    /\ [][(/\ pc = "peek" /\ pc' \notin {"peek", "done", "dropped"}
           /\ rxq # <<>> /\ Reclaimed(Head(rxq).src)) =>
              /\ nstreams' = nstreams + 1
              /\ stream'[nstreams'].state = "live"
              /\ stream'[nstreams'].peer = Head(rxq).src
              /\ peers'[Head(rxq).src] = nstreams'
              /\ ~io'[nstreams'].has_data_to_read /\ ~io'[nstreams'].has_read_data
              /\ rxq' = rxq]_vars

C9_Witness ==
    \E s, u \in Streams :
        /\ ghost[s].swept /\ Live(u) /\ stream[s].peer = stream[u].peer
        /\ Len(delivered) >= 1
        /\ delivered[1].id = 1 /\ delivered[1].stream = u /\ delivered[1].first

\* C10: once the acceptor is gone the registry and the deletion queue are gone
\* whatever streams survive, and the drop of a stream then queues nothing and
\* changes no registry state.
C10_DropAfterServerGone ==
    /\ [](~ServerAlive => keys_to_delete = <<>> /\ \A p \in Peers : peers[p] = NoGate)
    /\ [][\A s \in Streams :
            (~ServerAlive /\ Live(s) /\ stream'[s].state # "live") =>
                /\ keys_to_delete' = keys_to_delete
                /\ peers' = peers
                /\ ~ghost'[s].pushed]_vars

C10_Witness ==
    /\ pc = "dropped"
    /\ \E s, u \in Streams :
          /\ stream[s].state = "dropped" /\ ~ghost[s].pushed
          /\ stream[u].state = "dropped" /\ ghost[u].pushed

\* C11: a failing peek ends the acceptor: the poll goes from the peek to
\* end-of-stream yielding no stream, raising no gate signal and receiving
\* nothing; with nothing queued the peek can only end that way. Afterwards the
\* acceptor stays ended: it yields no stream, raises has_data_to_read on no
\* gate, awaits no gate and removes no registry entry.
C11_PeekErrorTerminates ==
    /\ [][(pc # "done" /\ pc' = "done") =>
              /\ pc = "peek"
              /\ nstreams' = nstreams /\ stream' = stream /\ io' = io
              /\ rxq' = rxq /\ ghost' = ghost /\ delivered' = delivered]_vars
    /\ [][(pc = "peek" /\ rxq = <<>> /\ pc' \notin {"peek", "dropped"}) => pc' = "done"]_vars
    /\ [][pc = "done" =>
              /\ pc' = "done"
              /\ nstreams' = nstreams
              /\ peers' = peers /\ keys_to_delete' = keys_to_delete
              /\ accGate' = NoGate /\ peer_with_data' = peer_with_data
              /\ \A s \in Streams :
                    /\ ghost'[s].raised => ghost[s].raised
                    /\ io'[s].has_data_to_read =>
                          io[s].has_data_to_read \/ stream[s].state = "dropping"]_vars

C11_Witness ==
    /\ pc = "done"
    /\ rxq # <<>>
    /\ \E s, u \in Streams :
          /\ Live(s) /\ ghost[s].has_read
          /\ stream[u].state = "dropped"

\* C12: connect tries the candidates in resolution order; it returns Ok with
\* the socket of the first candidate whose bind and connect both succeed,
\* whatever way the candidates before it failed, and tries no candidate after
\* it; with no such candidate every candidate is tried and it returns Err.
C12_FirstSuccessWins ==
    LET a == conn.socket_addrs
        oks == {k \in 1..Len(a) : a[k] = "ok"}
    IN /\ conn.tried = [k \in 1..conn.i |-> k]
       /\ conn.cnx # 0 =>
             /\ conn.cnx \in oks
             /\ \A k \in oks : conn.cnx <= k
             /\ conn.i = conn.cnx
       /\ conn.pc = "returned" =>
             IF oks # {}
             THEN conn.result = "Ok" /\ conn.cnx # 0
             ELSE conn.result = "Err" /\ conn.cnx = 0 /\ conn.i = Len(a)

C12_Witness ==
    /\ conn.pc = "returned" /\ conn.result = "Ok"
    /\ Len(conn.socket_addrs) = 3
    /\ conn.socket_addrs[1] \in {"bind_err", "connect_err", "timeout"}
    /\ conn.socket_addrs[2] = "ok" /\ conn.socket_addrs[3] = "ok"
    /\ conn.cnx = 2

\* C13 (as claimed): when every candidate fails, connect returns Err and the
\* error it carries is the one of the last candidate tried, whether that
\* candidate failed in bind, in connect or by timeout.
C13_LastErrorWins ==
    LET a == conn.socket_addrs
    IN (/\ conn.pc = "returned"
        /\ a # <<>>
        /\ \A k \in 1..Len(a) : a[k] # "ok") =>
           conn.result = "Err" /\ conn.last_err = Len(a)

\* stream s would pass the await of has_data_to_read at its next poll
GateOpen(s) ==
    \/ stream[s].pending_notification \in {"notified", "latched", "None"}
    \/ io[s].has_data_to_read

\* the acceptor raises has_data_to_read on gate s in this step (udp.rs:216)
Raises(s) ==
    /\ pc = "peek" /\ pc' \in {"wait", "loop"}
    /\ rxq # <<>> /\ peers[Head(rxq).src] = s

\* C14: the acceptor raises has_data_to_read on a gate only when its previous
\* raise on that gate was answered by a read of the stream or by its drop; a
\* live stream whose gate is open has its own datagram at the head of the
\* queue, classified by the acceptor since the stream's last read (or it is
\* the stream's first); and a stored has_read_data permit of a live stream
\* exists only after its first read, while the acceptor has not yet awaited it.
C14_GatePingPong ==
    /\ [][\A s \in Streams : Raises(s) => ~ghost[s].raised]_vars
    /\ [](\A s \in Streams :
            /\ (Live(s) /\ GateOpen(s)) =>
                  /\ rxq # <<>> /\ Head(rxq).src = stream[s].peer
                  /\ ghost[s].raised \/ ~ghost[s].has_read
            /\ (Live(s) /\ ServerAlive /\ io[s].has_read_data) =>
                  /\ pc = "start" /\ peer_with_data = stream[s].peer
                  /\ ghost[s].has_read)

C14_Witness ==
    \E s \in Streams :
        /\ Live(s) /\ ghost[s].raised /\ pc = "wait" /\ accGate = s
        /\ \E k \in 1..Len(delivered) : delivered[k].stream = s /\ delivered[k].raised

\* C15: at most one live stream at a time can pass the await of its
\* has_data_to_read and so call poll_recv_from on the shared socket; the
\* subscription latched when a stream is created counts.
C15_OneStreamPastGate ==
    \A s, u \in Streams :
        (Live(s) /\ Live(u) /\ GateOpen(s) /\ GateOpen(u)) => s = u

C15_Witness ==
    \E s, u, v \in Streams :
        /\ s # u /\ Live(s) /\ Live(u)
        /\ GateOpen(s) /\ ghost[s].raised /\ ghost[s].has_read
        /\ ghost[u].has_read /\ stream[u].rd = "pending"
        /\ stream[v].state = "dropped"

\* stream s was yielded and has neither completed a read nor been dropped
Unread(s) == Live(s) /\ ~ghost[s].has_read

\* C16: while a yielded stream has neither completed its first read nor been
\* dropped, the acceptor (if it still exists) is at the start of its closure
\* with that peer as pending-ack peer or suspended on that gate's
\* has_read_data, un-notified, and no step peeks, raises has_data_to_read or
\* yields a stream; the stream's gate is latched with its datagram at the head
\* of the queue, so no poll of its first read ends Pending.
C16_FirstReadBlocksAcceptor ==
    /\ [](\A s \in Streams : Unread(s) =>
              /\ stream[s].rd # "pending"
              /\ stream[s].pending_notification \in {"latched", "None"}
              /\ rxq # <<>> /\ Head(rxq).src = stream[s].peer
              /\ ServerAlive =>
                    /\ pc \in {"start", "ack_wait"}
                    /\ peers[stream[s].peer] = s
                    /\ pc = "start" => peer_with_data = stream[s].peer
                    /\ pc = "ack_wait" => accGate = s /\ ~accNotified)
    /\ [][(\E s \in Streams : Unread(s)) =>
              /\ nstreams' = nstreams
              /\ pc' \notin {"loop", "peek", "wait"}
              /\ \A u \in Streams : ~Raises(u)
              /\ \A u \in Streams : ghost'[u].raised => ghost[u].raised]_vars

C16_Witness ==
    \E s, u \in Streams :
        /\ Unread(s) /\ pc = "ack_wait" /\ accGate = s
        /\ ghost[s].last = "error"
        /\ Live(u) /\ ghost[u].has_read
        /\ \E k \in 1..Len(rxq) : rxq[k].src = stream[u].peer

\* address a is in the deletion queue
Queued(a) == \E i \in 1..Len(keys_to_delete) : keys_to_delete[i] = a

\* C17: a drop queues the address (while the registry exists) in a step that
\* signals nothing, and signals has_read_data only afterwards; once the drop
\* is complete the acceptor is no un-notified waiter of that gate, and as long
\* as the entry is registered the acceptor finds a stored permit, has been
\* notified or is about to sweep; the first sweep after the drop removes the
\* entry.
C17_DropRace ==
    /\ [][\A s \in Streams :
            /\ (Live(s) /\ stream'[s].state = "dropping") =>
                  /\ io' = io /\ accNotified' = accNotified
                  /\ ServerAlive => Queued(stream[s].peer)'
            /\ (stream[s].state = "dropping" /\ stream'[s].state = "dropped"
                    /\ ServerAlive) =>
                  /\ ghost[s].pushed
                  /\ Queued(stream[s].peer) \/ ghost[s].swept
            /\ (pc = "loop" /\ pc' = "peek" /\ ghost[s].pushed /\ ~ghost[s].swept) =>
                  /\ peers'[stream[s].peer] = NoGate
                  /\ ~Queued(stream[s].peer)']_vars
    /\ [](\A s \in Streams : (stream[s].state = "dropped" /\ ServerAlive) =>
              /\ ~AccWaiting(s)
              /\ peers[stream[s].peer] = s =>
                    \/ io[s].has_read_data
                    \/ accGate = s /\ accNotified
                    \/ pc = "loop")

C17_Witness ==
    \E s, u \in Streams :
        /\ stream[s].state = "dropping" /\ ghost[s].pushed
        /\ pc = "wait" /\ accGate = s /\ ~accNotified
        /\ stream[u].state = "dropped" /\ ghost[u].swept

\* C18 (as claimed): a poll of a read that finds the watchdog tick fired and
\* data_read_before_deadline set clears the flag and goes on to the gate and
\* the receive, so that with the gate open and the datagram queued this poll
\* returns the datagram; and a read fails with Timeout only when the tick has
\* fired with the flag clear.
C18_FlagSetContinues ==
    [][\A s \in Streams :
        /\ (/\ Live(s) /\ stream'[s].state = "live"
            /\ tick_ready(stream[s])
            /\ stream[s].data_read_before_deadline
            /\ ~stream'[s].data_read_before_deadline
            /\ GateOpen(s) /\ rxq # <<>>) =>
              /\ Len(delivered') = Len(delivered) + 1
              /\ delivered'[Len(delivered')].stream = s
        /\ (~ghost[s].timed_out /\ ghost'[s].timed_out) =>
              tick_ready(stream[s]) /\ ~stream[s].data_read_before_deadline]_vars

\* C19: while the registry exists an entry is removed or replaced only by the
\* sweep, and only for a queued address; every queued address belongs to a
\* stream that is being or has been dropped and whose gate is still the
\* registry entry of that address; so the entry of a live stream survives
\* every step, also for an address dropped and accepted again.
C19_OnlySweepRemoves ==
    /\ [][\A p \in Peers :
            (peers[p] # NoGate /\ peers'[p] # peers[p] /\ pc' \notin {"done", "dropped"}) =>
                pc = "loop" /\ pc' = "peek" /\ Queued(p) /\ peers'[p] = NoGate]_vars
    /\ [](\A i \in 1..Len(keys_to_delete) :
            \E s \in Streams :
                /\ stream[s].state \in {"dropping", "dropped"}
                /\ stream[s].peer = keys_to_delete[i]
                /\ peers[keys_to_delete[i]] = s)
    /\ [][\A s \in Streams :
            (Live(s) /\ peers[stream[s].peer] = s /\ pc' \notin {"done", "dropped"}) =>
                peers'[stream[s].peer] = s]_vars

C19_Witness ==
    \E s, u, v \in Streams :
        /\ s < u /\ u < v
        /\ ghost[s].swept /\ ghost[v].swept
        /\ Live(u) /\ stream[u].peer = stream[s].peer /\ stream[v].peer # stream[u].peer
        /\ peers[stream[u].peer] = u

====
